---- MODULE Spec2Model ----
(***************************************************************************)
(* Action dispatch of the client library: Corp.Do and Corp.AccessToken     *)
(* (corp/corp.go) run by several concurrent callers on one Corp, and the   *)
(* menu tree that travels through the Create and Get menu actions          *)
(* (oa/menu_test.go).                                                      *)
(***************************************************************************)
EXTENDS Integers, Sequences, FiniteSets, TLC

VARIABLES corp, calls, menu

vars == <<corp, calls, menu>>

(***************************************************************************)
(* Bounds                                                                  *)
(***************************************************************************)
\* number of goroutines that call into the same Corp concurrently
NumCalls == 2

Slots == 1..NumCalls

(***************************************************************************)
(* Values                                                                  *)
(***************************************************************************)
\* Go's nil error
Nil == [origin |-> "nil", text |-> ""]

\* an error value made by the collaborator named in origin
Err(origin, text) == [origin |-> origin, text |-> text]

\* a JSON field that is not on the wire
Absent == [t |-> "Null"]

Num(n) == [t |-> "Number", n |-> n]

Str(s) == [t |-> "String", s |-> s]

\* no bytes (the zero value of resp []byte)
NoResp == [syntax |-> "none"]

\* The bodies the transport can answer with.  syntax says whether
\* encoding/json accepts the bytes; token is the access_token member.
Responses ==
  { [syntax |-> "ok",  errcode |-> Num(0),     errmsg |-> Str("ok"), token |-> Str("TOKEN")],
    [syntax |-> "ok",  errcode |-> Absent,     errmsg |-> Absent,    token |-> Str("TOKEN")],
    [syntax |-> "ok",  errcode |-> Num(40001), errmsg |-> Str("invalid credential"), token |-> Absent],
    [syntax |-> "ok",  errcode |-> Num(-1),    errmsg |-> Str("system busy"), token |-> Absent],
    [syntax |-> "ok",  errcode |-> Num(45009), errmsg |-> Absent,    token |-> Absent],
    [syntax |-> "bad", errcode |-> Absent,     errmsg |-> Absent,    token |-> Absent] }

\* what a call of the transport capability returns: (resp, err)
TransportOutcomes ==
  { [resp |-> r, err |-> Nil] : r \in Responses }
    \cup { [resp |-> NoResp, err |-> Err("transport", "timeout")] }

\* what Body() / UploadForm() return: (bytes-or-form, err)
ProducerOutcomes(what) ==
  { [out |-> what, err |-> Nil], [out |-> "", err |-> Err("encoding", what)] }

\* what the Action's Decode returns
DecodeOutcomes == { Nil, Err("decode", "unexpected payload") }

\* The wx.Action values handed to Do: a GET action, a POST action and an
\* upload action, as the constructors of the library build them.
Actions ==
  { [name |-> "AgentGet", method |-> "GET",  upload |-> FALSE, url |-> "agent/get"],
    [name |-> "AgentSet", method |-> "POST", upload |-> FALSE, url |-> "agent/set"],
    [name |-> "MediaUpload", method |-> "POST", upload |-> TRUE, url |-> "media/upload"] }

NoAction == [name |-> "none"]

NoReq == [fn |-> "none"]

NilToken == [nil |-> TRUE]

\* the access token each caller passes (Do) or the secret (AccessToken)
TokenOf(d) == IF d = 1 THEN "T1" ELSE IF d = 2 THEN "T2" ELSE "T3"

(***************************************************************************)
(* Pure helpers of corp.go                                                 *)
(***************************************************************************)
\* gjson Result.Int(): a missing member reads as 0
GjsonInt(v) == IF v.t = "Number" THEN v.n ELSE 0

\* gjson Result.String(): a missing member reads as ""
GjsonString(v) == IF v.t = "String" THEN v.s ELSE ""

Digit(n) == CASE n = 0 -> "0" [] n = 1 -> "1" [] n = 2 -> "2" [] n = 3 -> "3"
              [] n = 4 -> "4" [] n = 5 -> "5" [] n = 6 -> "6" [] n = 7 -> "7"
              [] n = 8 -> "8" [] n = 9 -> "9"

RECURSIVE NatToStr(_)
NatToStr(n) == IF n < 10 THEN Digit(n) ELSE NatToStr(n \div 10) \o Digit(n % 10)

\* the %d verb
FmtD(n) == IF n < 0 THEN "-" \o NatToStr(0 - n) ELSE NatToStr(n)

\* fmt.Errorf("%d|%s", code, r.Get("errmsg").String())
EnvelopeError(code, r) == Err("envelope", FmtD(code) \o "|" \o GjsonString(r.errmsg))

\* action.URL(accessToken)
ActionURL(a, accessToken) == a.url \o "?access_token=" \o accessToken

\* fmt.Sprintf("%s?corpid=%s&corpsecret=%s", urls.CorpCgiBinAccessToken, corp.corpid, secret)
AccessTokenURL(c, secret) == "gettoken?corpid=" \o c.corpid \o "&corpsecret=" \o secret

\* json.Unmarshal(resp, token): the error it returns
UnmarshalError(r) == IF r.syntax # "ok" THEN Err("unmarshal", "syntax") ELSE Nil

\* json.Unmarshal(resp, token): the AccessToken it fills
UnmarshalToken(r) == [nil |-> FALSE, Token |-> GjsonString(r.token)]

(***************************************************************************)
(* State                                                                   *)
(***************************************************************************)
IdleCall ==
  [ op |-> "none", pc |-> "idle", action |-> NoAction, token |-> "",
    req |-> NoReq, nreq |-> 0, resp |-> NoResp, err |-> Nil,
    producer |-> Nil, decoded |-> Nil, decArg |-> NoResp,
    ret |-> Nil, retTok |-> NilToken, trace |-> <<>> ]

\* New(corpid, WithServerConfig(token, aeskey), WithMockClient(c))
NewCorp == [corpid |-> "CORPID", token |-> "SRVTOKEN", aeskey |-> "AESKEY",
            nonce |-> "Nonce16", client |-> "client"]

NoMenu == [pc |-> "off"]

Init ==
  /\ corp = NewCorp
  /\ calls = [d \in Slots |-> IdleCall]
  /\ menu = NoMenu

\* one step of the call in slot d: only that call's locals change
Step(d, c) ==
  /\ calls' = [calls EXCEPT ![d] = c]
  /\ UNCHANGED <<corp, menu>>

Log(c, ev) == Append(c.trace, ev)

(***************************************************************************)
(* Corp.Do                                                                 *)
(***************************************************************************)
\* DoCall with the branches of IsUpload() exchanged
DoCallInverted(d) ==
  /\ calls[d].pc = "idle"
  /\ \E a \in Actions :
       Step(d, [calls[d] EXCEPT !.op = "Do", !.action = a, !.token = TokenOf(d),
                                !.trace = Log(calls[d], "IsUpload"),
                                !.pc = IF a.upload THEN "Body" ELSE "UploadForm"])

\* entry of Do and the test of action.IsUpload()
DoCall(d) ==
  /\ calls[d].pc = "idle"
  /\ \E a \in Actions :
       Step(d, [calls[d] EXCEPT !.op = "Do", !.action = a, !.token = TokenOf(d),
                                !.trace = Log(calls[d], "IsUpload"),
                                !.pc = IF a.upload THEN "UploadForm" ELSE "Body"])

\* form, ferr := action.UploadForm(); if ferr != nil { return ferr }
DoUploadForm(d) ==
  /\ calls[d].pc = "UploadForm"
  /\ \E p \in ProducerOutcomes("form") :
       Step(d, [calls[d] EXCEPT !.producer = p.err,
                                !.trace = Log(calls[d], "UploadForm"),
                                !.ret = p.err,
                                !.pc = IF p.err # Nil THEN "done" ELSE "Upload"])

\* DoBody without the test of berr
DoBodyUnchecked(d) ==
  /\ calls[d].pc = "Body"
  /\ \E p \in ProducerOutcomes("body") :
       Step(d, [calls[d] EXCEPT !.producer = p.err,
                                !.trace = Log(calls[d], "Body"),
                                !.pc = "ClientDo"])

\* body, berr := action.Body(); if berr != nil { return berr }
DoBody(d) ==
  /\ calls[d].pc = "Body"
  /\ \E p \in ProducerOutcomes("body") :
       Step(d, [calls[d] EXCEPT !.producer = p.err,
                                !.trace = Log(calls[d], "Body"),
                                !.ret = p.err,
                                !.pc = IF p.err # Nil THEN "done" ELSE "ClientDo"])

\* DoClientUpload without the test of err after the branch
DoClientUploadUnchecked(d) ==
  /\ calls[d].pc = "Upload"
  /\ \E t \in TransportOutcomes :
       Step(d, [calls[d] EXCEPT
                  !.req = [fn |-> "Upload", method |-> "POST",
                           url |-> ActionURL(calls[d].action, calls[d].token),
                           payload |-> "form"],
                  !.nreq = @ + 1,
                  !.resp = t.resp, !.err = t.err,
                  !.trace = Log(calls[d], "Upload"),
                  !.pc = "Envelope"])

\* resp, err = corp.client.Upload(ctx, action.URL(accessToken), form, options...)
\* and, after the branch, if err != nil { return err }
DoClientUpload(d) ==
  /\ calls[d].pc = "Upload"
  /\ \E t \in TransportOutcomes :
       Step(d, [calls[d] EXCEPT
                  !.req = [fn |-> "Upload", method |-> "POST",
                           url |-> ActionURL(calls[d].action, calls[d].token),
                           payload |-> "form"],
                  !.nreq = @ + 1,
                  !.resp = t.resp, !.err = t.err,
                  !.trace = Log(calls[d], "Upload"),
                  !.ret = t.err,
                  !.pc = IF t.err # Nil THEN "done" ELSE "Envelope"])

\* DoClientDo that keeps the access token on the Corp
DoClientDoShared(d) ==
  /\ calls[d].pc = "ClientDo"
  /\ \E t \in TransportOutcomes :
       /\ calls' = [calls EXCEPT ![d] =
                      [calls[d] EXCEPT
                         !.req = [fn |-> "Do", method |-> calls[d].action.method,
                                  url |-> ActionURL(calls[d].action, calls[d].token),
                                  payload |-> "body"],
                         !.nreq = @ + 1,
                         !.resp = t.resp, !.err = t.err,
                         !.trace = Log(calls[d], "Do"),
                         !.ret = t.err,
                         !.pc = IF t.err # Nil THEN "done" ELSE "Envelope"]]
       /\ corp' = [corp EXCEPT !.token = calls[d].token]
       /\ UNCHANGED menu

\* DoClientDo that calls the transport a second time after an error
DoClientDoRetry(d) ==
  /\ calls[d].pc = "ClientDo"
  /\ \E t \in TransportOutcomes :
       Step(d, [calls[d] EXCEPT
                  !.req = [fn |-> "Do", method |-> calls[d].action.method,
                           url |-> ActionURL(calls[d].action, calls[d].token),
                           payload |-> "body"],
                  !.nreq = @ + 1,
                  !.resp = t.resp, !.err = t.err,
                  !.trace = Log(calls[d], "Do"),
                  !.ret = t.err,
                  !.pc = IF t.err # Nil
                         THEN (IF calls[d].nreq = 0 THEN "ClientDo" ELSE "done")
                         ELSE "Envelope"])

\* resp, err = corp.client.Do(ctx, action.Method(), action.URL(accessToken), body, options...)
\* if err != nil { return err }, inside the branch and again after it
DoClientDo(d) ==
  /\ calls[d].pc = "ClientDo"
  /\ \E t \in TransportOutcomes :
       Step(d, [calls[d] EXCEPT
                  !.req = [fn |-> "Do", method |-> calls[d].action.method,
                           url |-> ActionURL(calls[d].action, calls[d].token),
                           payload |-> "body"],
                  !.nreq = @ + 1,
                  !.resp = t.resp, !.err = t.err,
                  !.trace = Log(calls[d], "Do"),
                  !.ret = t.err,
                  !.pc = IF t.err # Nil THEN "done" ELSE "Envelope"])

\* DoEnvelope that tests code > 0
DoEnvelopePositiveOnly(d) ==
  /\ calls[d].pc = "Envelope"
  /\ LET code == GjsonInt(calls[d].resp.errcode) IN
       Step(d, [calls[d] EXCEPT
                  !.trace = Log(calls[d], "Envelope"),
                  !.ret = IF code > 0 THEN EnvelopeError(code, calls[d].resp) ELSE Nil,
                  !.pc = IF code > 0 THEN "done" ELSE "Decode"])

\* DoEnvelope that reports the envelope error as a bare message
DoEnvelopeBare(d) ==
  /\ calls[d].pc = "Envelope"
  /\ LET code == GjsonInt(calls[d].resp.errcode) IN
       Step(d, [calls[d] EXCEPT
                  !.trace = Log(calls[d], "Envelope"),
                  !.ret = IF code # 0 THEN Err("remote", GjsonString(calls[d].resp.errmsg))
                          ELSE Nil,
                  !.pc = IF code # 0 THEN "done" ELSE "Decode"])

\* r := gjson.ParseBytes(resp)
\* if code := r.Get("errcode").Int(); code != 0 { return fmt.Errorf(...) }
DoEnvelope(d) ==
  /\ calls[d].pc = "Envelope"
  /\ LET code == GjsonInt(calls[d].resp.errcode) IN
       Step(d, [calls[d] EXCEPT
                  !.trace = Log(calls[d], "Envelope"),
                  !.ret = IF code # 0 THEN EnvelopeError(code, calls[d].resp) ELSE Nil,
                  !.pc = IF code # 0 THEN "done" ELSE "Decode"])

\* DoDecode that drops the error of Decode
DoDecodeSwallow(d) ==
  /\ calls[d].pc = "Decode"
  /\ \E e \in DecodeOutcomes :
       Step(d, [calls[d] EXCEPT !.decArg = calls[d].resp,
                                !.decoded = e,
                                !.trace = Log(calls[d], "Decode"),
                                !.ret = Nil,
                                !.pc = "done"])

\* return action.Decode(resp)
DoDecode(d) ==
  /\ calls[d].pc = "Decode"
  /\ \E e \in DecodeOutcomes :
       Step(d, [calls[d] EXCEPT !.decArg = calls[d].resp,
                                !.decoded = e,
                                !.trace = Log(calls[d], "Decode"),
                                !.ret = e,
                                !.pc = "done"])

(***************************************************************************)
(* Corp.AccessToken                                                        *)
(***************************************************************************)
\* resp, err := corp.client.Do(ctx, http.MethodGet, url, nil, options...)
\* if err != nil { return nil, err }
ATCall(d) ==
  /\ calls[d].pc = "idle"
  /\ \E t \in TransportOutcomes :
       Step(d, [calls[d] EXCEPT
                  !.op = "AccessToken", !.token = TokenOf(d),
                  !.req = [fn |-> "Do", method |-> "GET",
                           url |-> AccessTokenURL(corp, TokenOf(d)),
                           payload |-> "nil"],
                  !.nreq = @ + 1,
                  !.resp = t.resp, !.err = t.err,
                  !.trace = Log(calls[d], "Do"),
                  !.ret = t.err, !.retTok = NilToken,
                  !.pc = IF t.err # Nil THEN "done" ELSE "ATEnvelope"])

\* r := gjson.ParseBytes(resp)
\* if code := r.Get("errcode").Int(); code != 0 { return nil, fmt.Errorf(...) }
ATEnvelope(d) ==
  /\ calls[d].pc = "ATEnvelope"
  /\ LET code == GjsonInt(calls[d].resp.errcode) IN
       Step(d, [calls[d] EXCEPT
                  !.trace = Log(calls[d], "Envelope"),
                  !.ret = IF code # 0 THEN EnvelopeError(code, calls[d].resp) ELSE Nil,
                  !.retTok = NilToken,
                  !.pc = IF code # 0 THEN "done" ELSE "ATUnmarshal"])

\* ATUnmarshal that hands back the token together with the error
ATUnmarshalBoth(d) ==
  /\ calls[d].pc = "ATUnmarshal"
  /\ LET e == UnmarshalError(calls[d].resp) IN
       Step(d, [calls[d] EXCEPT
                  !.trace = Log(calls[d], "Unmarshal"),
                  !.decoded = e,
                  !.ret = e,
                  !.retTok = UnmarshalToken(calls[d].resp),
                  !.pc = "done"])

\* token := new(AccessToken)
\* if err = json.Unmarshal(resp, token); err != nil { return nil, err }
\* return token, nil
ATUnmarshal(d) ==
  /\ calls[d].pc = "ATUnmarshal"
  /\ LET e == UnmarshalError(calls[d].resp) IN
       Step(d, [calls[d] EXCEPT
                  !.trace = Log(calls[d], "Unmarshal"),
                  !.decoded = e,
                  !.ret = e,
                  !.retTok = IF e # Nil THEN NilToken ELSE UnmarshalToken(calls[d].resp),
                  !.pc = "done"])

Next ==
  \E d \in Slots :
    \/ DoCall(d)
    \/ DoUploadForm(d)
    \/ DoBody(d)
    \/ DoClientUpload(d)
    \/ DoClientDo(d)
    \/ DoEnvelope(d)
    \/ DoDecode(d)
    \/ ATCall(d)
    \/ ATEnvelope(d)
    \/ ATUnmarshal(d)

Spec == Init /\ [][Next]_vars

(***************************************************************************)
(* Menu tree: CreateMenu / CreateConditionalMenu body, GetMenu decoder     *)
(***************************************************************************)
\* most top-level buttons of a menu in the model
MaxButtons == 2

\* most sub-buttons of a group in the model
MaxSub == 1

\* a Go slice: nil, or a (possibly empty) sequence
NilSlice == [nil |-> TRUE, elems |-> <<>>]

Slice(elems) == [nil |-> FALSE, elems |-> elems]

\* the string fields of MenuButton and their JSON member names
ButtonFields == {"Type", "Name", "Key", "URL", "AppID", "PagePath", "MediaID"}

ButtonKey(f) == CASE f = "Type" -> "type" [] f = "Name" -> "name" [] f = "Key" -> "key"
                  [] f = "URL" -> "url" [] f = "AppID" -> "appid"
                  [] f = "PagePath" -> "pagepath" [] f = "MediaID" -> "media_id"

\* the string fields of MenuMatchRule and their JSON member names
RuleFields == {"TagID", "Sex", "Country", "Province", "City", "ClientPlatformType", "Language"}

RuleKey(f) == CASE f = "TagID" -> "tag_id" [] f = "Sex" -> "sex" [] f = "Country" -> "country"
                [] f = "Province" -> "province" [] f = "City" -> "city"
                [] f = "ClientPlatformType" -> "client_platform_type"
                [] f = "Language" -> "language"

Button(type, name, key, url, appid, pagepath, mediaid, sub) ==
  [Type |-> type, Name |-> name, Key |-> key, URL |-> url, AppID |-> appid,
   PagePath |-> pagepath, MediaID |-> mediaid, SubButton |-> sub]

\* the button builders; sub is the SubButton a builder leaves on a leaf
ClickButton(name, key, sub) == Button("click", name, key, "", "", "", "", sub)

ViewButton(name, url, sub) == Button("view", name, "", url, "", "", "", sub)

MPButton(name, appid, pagepath, url, sub) ==
  Button("miniprogram", name, "", url, appid, pagepath, "", sub)

MediaButton(name, mediaid, sub) == Button("media_id", name, "", "", "", "", mediaid, sub)

GroupButton(name, buttons) == Button("", name, "", "", "", "", "", Slice(buttons))

Leaves(sub) ==
  { ClickButton("song", "V1001_TODAY_MUSIC", sub),
    ViewButton("search", "http://www.soso.com/", sub),
    MPButton("wxa", "wx286b93c14bbf93aa", "pages/lunar/index", "http://mp.weixin.qq.com", sub),
    MediaButton("pic", "MEDIA_ID1", sub) }

\* the sequences over S of length 1..n
SeqsUpTo(S, n) == UNION { [1..k -> S] : k \in 1..n }

Groups(sub) == { GroupButton("menu", bs) : bs \in SeqsUpTo(Leaves(sub), MaxSub) }

Trees(sub) == SeqsUpTo(Leaves(sub) \cup Groups(sub), MaxButtons)

NoRule == [nil |-> TRUE]

MatchRule(tag, lang) ==
  [nil |-> FALSE, TagID |-> tag, Sex |-> "1", Country |-> "CN", Province |-> "",
   City |-> "Guangzhou", ClientPlatformType |-> "2", Language |-> lang]

Rules == { MatchRule("2", "zh_CN"), MatchRule("2", ""), MatchRule("", "zh_CN") }

\* a JSON member that may be missing reads as ""
Member(o, k) == IF k \in DOMAIN o THEN o[k] ELSE ""

RECURSIVE EncodeButtonOmitEmpty(_)
\* EncodeButton with sub_button left out when there are no children
EncodeButtonOmitEmpty(b) ==
  LET keys == { ButtonKey(f) : f \in { g \in ButtonFields : b[g] # "" } }
      field(k) == CHOOSE f \in ButtonFields : ButtonKey(f) = k
      sub == IF Len(b.SubButton.elems) = 0 THEN {} ELSE {"sub_button"}
  IN  [ k \in keys \cup sub |->
          IF k = "sub_button"
          THEN [ i \in 1..Len(b.SubButton.elems) |->
                   EncodeButtonOmitEmpty(b.SubButton.elems[i]) ]
          ELSE b[field(k)] ]

RECURSIVE EncodeButton(_)
\* json.Marshal of a MenuButton: empty strings are omitted, sub_button never
EncodeButton(b) ==
  LET keys == { ButtonKey(f) : f \in { g \in ButtonFields : b[g] # "" } }
      field(k) == CHOOSE f \in ButtonFields : ButtonKey(f) = k
  IN  [ k \in keys \cup {"sub_button"} |->
          IF k = "sub_button"
          THEN [ i \in 1..Len(b.SubButton.elems) |-> EncodeButton(b.SubButton.elems[i]) ]
          ELSE b[field(k)] ]

EncodeButtons(bs) == [ i \in 1..Len(bs) |-> EncodeButton(bs[i]) ]

\* json.Marshal of a MenuMatchRule: every empty field is omitted
EncodeRule(r) ==
  LET keys == { RuleKey(f) : f \in { g \in RuleFields : r[g] # "" } }
      field(k) == CHOOSE f \in RuleFields : RuleKey(f) = k
  IN  [ k \in keys |-> r[field(k)] ]

\* the body producer of CreateMenu(buttons...)
CreateMenuBody(buttons) == [ button |-> EncodeButtons(buttons) ]

\* the body producer of CreateConditionalMenu(matchRule, buttons...)
CreateConditionalMenuBody(rule, buttons) ==
  [ button |-> EncodeButtons(buttons), matchrule |-> EncodeRule(rule) ]

RECURSIVE DecodeButton(_)
\* json.Unmarshal into a MenuButton
DecodeButton(o) ==
  [ Type |-> Member(o, "type"), Name |-> Member(o, "name"), Key |-> Member(o, "key"),
    URL |-> Member(o, "url"), AppID |-> Member(o, "appid"),
    PagePath |-> Member(o, "pagepath"), MediaID |-> Member(o, "media_id"),
    SubButton |-> IF "sub_button" \in DOMAIN o
                  THEN Slice([ i \in 1..Len(o["sub_button"]) |-> DecodeButton(o["sub_button"][i]) ])
                  ELSE NilSlice ]

DecodeButtons(arr) == Slice([ i \in 1..Len(arr) |-> DecodeButton(arr[i]) ])

\* json.Unmarshal into a MenuMatchRule
DecodeRule(o) ==
  [ nil |-> FALSE, TagID |-> Member(o, "tag_id"), Sex |-> Member(o, "sex"),
    Country |-> Member(o, "country"), Province |-> Member(o, "province"),
    City |-> Member(o, "city"), ClientPlatformType |-> Member(o, "client_platform_type"),
    Language |-> Member(o, "language") ]

NilMenu == [nil |-> TRUE]

\* the decoder of GetMenu(dest): json.Unmarshal(resp, dest)
DecodeMenuInfo(resp) ==
  [ DefaultMenu |->
      IF "menu" \in DOMAIN resp
      THEN [ nil |-> FALSE, Button |-> DecodeButtons(resp["menu"]["button"]),
             MenuID |-> resp["menu"]["menuid"] ]
      ELSE NilMenu,
    ConditionalMenu |->
      IF "conditionalmenu" \in DOMAIN resp
      THEN Slice([ i \in 1..Len(resp["conditionalmenu"]) |->
                     [ Button |-> DecodeButtons(resp["conditionalmenu"][i]["button"]),
                       MatchRule |-> DecodeRule(resp["conditionalmenu"][i]["matchrule"]),
                       MenuID |-> resp["conditionalmenu"][i]["menuid"] ] ])
      ELSE NilSlice ]

\* the answer of menu/get for a menu created with the given body
GetMenuResponse(body) ==
  IF "matchrule" \in DOMAIN body
  THEN [ conditionalmenu |-> << [ button |-> body["button"],
                                  matchrule |-> body["matchrule"],
                                  menuid |-> 208396993 ] >> ]
  ELSE [ menu |-> [ button |-> body["button"], menuid |-> 208396938 ] ]

NoJSON == [none |-> TRUE]

\* the caller builds a menu: new(MenuInfo) is the empty destination
MenuInit ==
  /\ corp = NewCorp
  /\ calls = [d \in Slots |-> IdleCall]
  /\ \E sub \in {NilSlice, Slice(<<>>)} : \E bs \in Trees(sub) : \E r \in Rules \cup {NoRule} :
       menu = [ pc |-> "built", buttons |-> bs, rule |-> r, body |-> NoJSON,
                resp |-> NoJSON,
                dest |-> [DefaultMenu |-> NilMenu, ConditionalMenu |-> NilSlice] ]

\* Do(CreateMenu(...)) / Do(CreateConditionalMenu(...)): the body is produced
MenuCreate ==
  /\ menu.pc = "built"
  /\ menu' = [menu EXCEPT !.pc = "created",
                          !.body = IF menu.rule = NoRule
                                   THEN CreateMenuBody(menu.buttons)
                                   ELSE CreateConditionalMenuBody(menu.rule, menu.buttons)]
  /\ UNCHANGED <<corp, calls>>

\* the transport answers menu/get with the stored menu
MenuServe ==
  /\ menu.pc = "created"
  /\ menu' = [menu EXCEPT !.pc = "served", !.resp = GetMenuResponse(menu.body)]
  /\ UNCHANGED <<corp, calls>>

\* Do(GetMenu(dest)): the decoder fills dest
MenuGet ==
  /\ menu.pc = "served"
  /\ menu' = [menu EXCEPT !.pc = "decoded", !.dest = DecodeMenuInfo(menu.resp)]
  /\ UNCHANGED <<corp, calls>>

MenuNext == MenuCreate \/ MenuServe \/ MenuGet

MenuSpec == MenuInit /\ [][MenuNext]_vars

(***************************************************************************)
(* Properties                                                              *)
(***************************************************************************)
IsDo(d) == calls[d].op = "Do"

IsAT(d) == calls[d].op = "AccessToken"

Done(d) == calls[d].pc = "done"

\* how often the event occurs in the call's history
Count(d, ev) == Cardinality({ i \in DOMAIN calls[d].trace : calls[d].trace[i] = ev })

\* the transport has answered the call without error
Answered(d) == calls[d].nreq > 0 /\ calls[d].err = Nil

\* the transport has failed the call
Failed(d) == calls[d].nreq > 0 /\ calls[d].err # Nil

\* errcode is on the wire and is not zero
NonZeroErrcode(r) == r.errcode.t = "Number" /\ r.errcode.n # 0

\* errcode is missing or zero
ZeroErrcode(r) == r.errcode = Absent \/ r.errcode = Num(0)

\* the decimal text of the error codes the transport answers with
CodeText(n) == CASE n = 40001 -> "40001" [] n = -1 -> "-1" [] n = 45009 -> "45009"

\* the errmsg member as text
MsgText(r) == IF r.errmsg = Absent THEN "" ELSE r.errmsg.s

\* the order of the steps of Do
Rank(ev) == CASE ev = "IsUpload" -> 0
              [] ev \in {"Body", "UploadForm"} -> 1
              [] ev \in {"Do", "Upload"} -> 2
              [] ev = "Envelope" -> 3
              [] ev = "Decode" -> 4

\* C1: when the transport answers with errcode present and non-zero, Do
\* returns the non-nil error "<code>|<message>" and Decode is never invoked.
C1_EnvelopeError ==
  \A d \in Slots :
    (IsDo(d) /\ Answered(d) /\ NonZeroErrcode(calls[d].resp)) =>
      /\ Count(d, "Decode") = 0
      /\ Done(d) =>
           /\ calls[d].ret # Nil
           /\ calls[d].ret.text =
                CodeText(calls[d].resp.errcode.n) \o "|" \o MsgText(calls[d].resp)

C1_Witness ==
  \E d \in Slots :
    /\ IsDo(d) /\ Done(d) /\ Answered(d)
    /\ calls[d].resp.errcode = Num(-1)
    /\ calls[d].ret.text = "-1|system busy"

\* C2: when the transport answers without error and errcode is absent or
\* zero, Do invokes Decode exactly once with the response bytes and returns
\* what Decode returned, for upload and non-upload actions alike.
C2_DecodeOnce ==
  \A d \in Slots :
    (IsDo(d) /\ Answered(d) /\ ZeroErrcode(calls[d].resp)) =>
      /\ Count(d, "Decode") <= 1
      /\ Done(d) =>
           /\ Count(d, "Decode") = 1
           /\ calls[d].decArg = calls[d].resp
           /\ calls[d].ret = calls[d].decoded

C2_Witness ==
  \E d \in Slots :
    /\ IsDo(d) /\ Done(d) /\ Answered(d)
    /\ calls[d].action.upload
    /\ calls[d].resp.errcode = Absent
    /\ calls[d].decoded # Nil
    /\ calls[d].ret = calls[d].decoded

\* C3: when the transport capability returns an error, Do returns that error
\* unchanged and neither the envelope check nor Decode runs.
C3_TransportError ==
  \A d \in Slots :
    (IsDo(d) /\ Failed(d)) =>
      /\ Count(d, "Envelope") = 0
      /\ Count(d, "Decode") = 0
      /\ Done(d)
      /\ calls[d].ret = calls[d].err

C3_Witness ==
  \E d \in Slots :
    /\ IsDo(d) /\ Done(d) /\ Failed(d)
    /\ calls[d].action.upload
    /\ calls[d].req.fn = "Upload"
    /\ calls[d].ret = Err("transport", "timeout")

\* C4: in every dispatch exactly one of Body and UploadForm is invoked,
\* once, chosen by IsUpload() alone; the transport function matches it.
C4_OneProducer ==
  \A d \in Slots :
    IsDo(d) =>
      /\ Count(d, "IsUpload") = 1
      /\ Count(d, "Body") + Count(d, "UploadForm")
           = (IF calls[d].pc \in {"Body", "UploadForm"} THEN 0 ELSE 1)
      /\ calls[d].action.upload => (Count(d, "Body") = 0 /\ Count(d, "Do") = 0)
      /\ ~calls[d].action.upload => (Count(d, "UploadForm") = 0 /\ Count(d, "Upload") = 0)
      /\ calls[d].nreq > 0 =>
           calls[d].req.fn = (IF calls[d].action.upload THEN "Upload" ELSE "Do")

C4_Witness ==
  \E d, e \in Slots :
    /\ IsDo(d) /\ Done(d) /\ calls[d].action.upload
    /\ Count(d, "UploadForm") = 1 /\ Count(d, "Upload") = 1
    /\ IsDo(e) /\ Done(e) /\ ~calls[e].action.upload
    /\ Count(e, "Body") = 1 /\ Count(e, "Do") = 1

\* C5: when Body() or UploadForm() fails, Do returns that error at once and
\* unchanged; the transport and Decode are never invoked.
C5_ProducerError ==
  \A d \in Slots :
    (IsDo(d) /\ calls[d].producer # Nil) =>
      /\ Done(d)
      /\ calls[d].ret = calls[d].producer
      /\ calls[d].nreq = 0
      /\ Count(d, "Do") = 0 /\ Count(d, "Upload") = 0
      /\ Count(d, "Decode") = 0

C5_Witness ==
  \E d, e \in Slots :
    /\ IsDo(d) /\ Done(d) /\ calls[d].ret = Err("encoding", "body")
    /\ IsDo(e) /\ Done(e) /\ calls[e].ret = Err("encoding", "form")

\* C6 as stated: every dispatch returns one of {transport error, envelope
\* error, decode error, nil}.
C6_FourClasses ==
  \A d \in Slots :
    (IsDo(d) /\ Done(d)) =>
      calls[d].ret.origin \in {"transport", "envelope", "decode", "nil"}

\* C6 amended: every dispatch returns exactly one of {encoding error (from
\* Body/UploadForm), transport error, envelope error, decode error, nil},
\* namely the error of the first stage that failed, or nil when none did.
C6_FiveClasses ==
  \A d \in Slots :
    (IsDo(d) /\ Done(d)) =>
      /\ calls[d].ret.origin \in {"encoding", "transport", "envelope", "decode", "nil"}
      /\ calls[d].ret.origin =
           (IF calls[d].producer # Nil THEN "encoding"
            ELSE IF calls[d].err # Nil THEN "transport"
            ELSE IF NonZeroErrcode(calls[d].resp) THEN "envelope"
            ELSE IF calls[d].decoded # Nil THEN "decode"
            ELSE "nil")

C6_Witness ==
  \E d \in Slots :
    /\ IsDo(d) /\ Done(d)
    /\ calls[d].producer # Nil
    /\ calls[d].ret.origin = "encoding"

\* the result of a finished call depends on its own inputs only
OwnInputsOnly ==
  \A d, e \in Slots :
    ( /\ Done(d) /\ Done(e)
      /\ calls[d].op = calls[e].op
      /\ calls[d].action = calls[e].action
      /\ calls[d].producer = calls[e].producer
      /\ calls[d].err = calls[e].err
      /\ calls[d].resp = calls[e].resp
      /\ calls[d].decoded = calls[e].decoded )
    => (calls[d].ret = calls[e].ret /\ calls[d].retTok = calls[e].retTok)

\* the request of a call carries its own token
OwnRequest ==
  \A d \in Slots :
    calls[d].nreq > 0 =>
      calls[d].req.url =
        (IF IsDo(d) THEN calls[d].action.url \o "?access_token=" \o TokenOf(d)
         ELSE "gettoken?corpid=CORPID&corpsecret=" \o TokenOf(d))

\* C7: under any interleaving of calls on one Corp no step writes a field of
\* the Corp, and each result depends only on the call's own action, token
\* and transport response.
C7_NoSharedState ==
  /\ [][corp' = corp]_vars
  /\ [](OwnInputsOnly /\ OwnRequest)

C7_Witness ==
  \E d, e \in Slots :
    /\ d # e
    /\ IsDo(d) /\ calls[d].pc = "Envelope" /\ ~calls[d].action.upload
    /\ IsDo(e) /\ Done(e) /\ calls[e].action = calls[d].action
    /\ calls[e].resp # calls[d].resp
    /\ calls[e].ret.origin = "envelope"
    /\ corp = NewCorp

\* C9: within one dispatch the transport is invoked at most once and the
\* steps run in the order producer, transport, envelope check, Decode.
C9_OrderedSteps ==
  \A d \in Slots :
    IsDo(d) =>
      /\ calls[d].nreq <= 1
      /\ Count(d, "Do") + Count(d, "Upload") = calls[d].nreq
      /\ \A i, j \in DOMAIN calls[d].trace :
           i < j => Rank(calls[d].trace[i]) < Rank(calls[d].trace[j])

C9_Witness ==
  \E d \in Slots :
    /\ IsDo(d) /\ Done(d)
    /\ calls[d].trace = <<"IsUpload", "Body", "Do", "Envelope", "Decode">>
    /\ calls[d].nreq = 1

\* C10: AccessToken makes one GET call of the transport and returns exactly
\* one of a token and an error: the transport error, the envelope error
\* "<code>|<message>" without unmarshalling, the unmarshal error, or the
\* token; it stores nothing on the Corp.
C10_AccessToken ==
  /\ corp = NewCorp
  /\ \A d \in Slots :
       (IsAT(d) /\ Done(d)) =>
         /\ calls[d].nreq = 1 /\ Count(d, "Do") = 1
         /\ calls[d].req.fn = "Do" /\ calls[d].req.method = "GET"
         /\ (calls[d].retTok = NilToken) = (calls[d].ret # Nil)
         /\ calls[d].err # Nil =>
              (calls[d].ret = calls[d].err /\ Count(d, "Envelope") = 0)
         /\ (calls[d].err = Nil /\ NonZeroErrcode(calls[d].resp)) =>
              /\ calls[d].ret.text =
                   CodeText(calls[d].resp.errcode.n) \o "|" \o MsgText(calls[d].resp)
              /\ Count(d, "Unmarshal") = 0
         /\ (calls[d].err = Nil /\ ZeroErrcode(calls[d].resp)) =>
              /\ Count(d, "Unmarshal") = 1
              /\ calls[d].ret = calls[d].decoded
              /\ calls[d].resp.syntax = "bad" => calls[d].ret # Nil

C10_Witness ==
  \E d, e \in Slots :
    /\ IsAT(d) /\ Done(d) /\ calls[d].retTok = [nil |-> FALSE, Token |-> "TOKEN"]
    /\ calls[d].ret = Nil
    /\ IsAT(e) /\ Done(e) /\ calls[e].ret.text = "45009|"
    /\ calls[e].retTok = NilToken /\ Count(e, "Unmarshal") = 0

\* the buttons the Get decoder left in dest
DecodedButtons ==
  IF menu.rule = NoRule THEN menu.dest.DefaultMenu.Button
  ELSE menu.dest.ConditionalMenu.elems[1].Button

\* the button array of the Get response
WireButtons ==
  IF menu.rule = NoRule THEN menu.resp["menu"]["button"]
  ELSE menu.resp["conditionalmenu"][1]["button"]

SameFields(a, b) == \A f \in ButtonFields : a[f] = b[f]

\* a decoded node without children holds an empty, non-nil SubButton
EmptyNotNil(s) == s.nil = FALSE /\ s.elems = <<>>

\* C8: a MenuButton tree sent through the Create body producer and read back
\* through the Get decoder keeps every node's Type/Name/Key/URL/AppID/
\* PagePath/MediaID and the order; childless nodes get an empty non-nil
\* SubButton; members missing on the wire decode to the empty string.
C8_RoundTrip ==
  menu.pc = "decoded" =>
    LET in == menu.buttons
        out == DecodedButtons
    IN  /\ out.nil = FALSE
        /\ Len(out.elems) = Len(in)
        /\ \A i \in 1..Len(in) :
             LET kids == in[i].SubButton.elems
                 got == out.elems[i].SubButton
             IN  /\ SameFields(in[i], out.elems[i])
                 /\ got.nil = FALSE
                 /\ Len(got.elems) = Len(kids)
                 /\ \A j \in 1..Len(kids) :
                      /\ SameFields(kids[j], got.elems[j])
                      /\ EmptyNotNil(got.elems[j].SubButton)
                 /\ \A f \in ButtonFields :
                      ButtonKey(f) \notin DOMAIN WireButtons[i] => out.elems[i][f] = ""
        /\ menu.rule # NoRule =>
             LET r == menu.dest.ConditionalMenu.elems[1].MatchRule
                 w == menu.resp["conditionalmenu"][1]["matchrule"]
             IN  /\ r = menu.rule
                 /\ \A f \in RuleFields : RuleKey(f) \notin DOMAIN w => r[f] = ""

C8_Witness ==
  /\ menu.pc = "decoded"
  /\ menu.rule # NoRule /\ menu.rule.Language = ""
  /\ Len(menu.buttons) = 2
  /\ menu.buttons[1].SubButton = NilSlice
  /\ menu.buttons[1].Type = "click"
  /\ menu.buttons[2].Type = "" /\ Len(menu.buttons[2].SubButton.elems) = 1
  /\ "type" \notin DOMAIN WireButtons[2]
  /\ DecodedButtons.elems[1].SubButton = Slice(<<>>)
  /\ DecodedButtons.elems[2].Key = ""
  /\ menu.dest.ConditionalMenu.elems[1].MatchRule.Language = ""

====
